---- MODULE Spec2Model ----
(***************************************************************************)
(* Hotel performance dashboard (bwf_daily_data_dashboard_from_db.py) and   *)
(* its sync job (bwf_daily_data_sync_to_sqlite.py).                        *)
(*                                                                         *)
(* Texts are sequences of one-character strings, so that the regular       *)
(* expressions of clean_sql act on characters as they do in the source.    *)
(***************************************************************************)
EXTENDS Integers, Sequences, FiniteSets, TLC

VARIABLES
    \* sanitizer harness
    san_pc, san_in, san_out, san_twice,
    \* the Snapshot Store: table daily_hourly_metrics of hotel_data.db
    store,
    \* NL-query handler (one run of the "if user_input:" block)
    nl_pc, question, raw_sql, sql, exec_in, data_raw, data, final_prompt,
    response, nl_trace, shown, failed_at, nl_store0,
    \* the sync job (sync_google_sheet_to_sqlite)
    sync_pc, sync_df,
    \* st.cache_data of load_all_data, get_overall_occupancy_rate and
    \* get_total_ooo_rooms_at_2100
    cache_all, cache_occ, cache_ooo,
    \* one run of the dashboard script
    pc, time_scale, all_data, start_date, end_date, occupancy_rate,
    total_ooo_rooms, kpis, charts, notices,
    \* history: the store as the run's first read found it, and whether the
    \* sync job wrote to the store after that read
    store_at_load, render_synced

sanVars == <<san_pc, san_in, san_out, san_twice>>
nlVars == <<nl_pc, question, raw_sql, sql, exec_in, data_raw, data, final_prompt,
            response, nl_trace, shown, failed_at, nl_store0>>
syncVars == <<sync_pc, sync_df>>
cacheVars == <<cache_all, cache_occ, cache_ooo>>
runVars == <<pc, time_scale, all_data, start_date, end_date, occupancy_rate,
             total_ooo_rooms, kpis, charts, notices, store_at_load, render_synced>>
dashVars == <<syncVars, cacheVars, runVars>>
vars == <<sanVars, store, nlVars, dashVars>>

(***************************************************************************)
(* Bounds                                                                  *)
(***************************************************************************)
MaxChunks == 4
MaxNLChunks == 3

(***************************************************************************)
(* Text primitives                                                         *)
(***************************************************************************)
\* The grave accent (the character of a markdown fence), which a TLA+ string
\* literal cannot hold: every other character is its own one-character string.
BT == "GRAVE"

\* re.IGNORECASE folding of one character (the letters the patterns use).
Lower(c) ==
    CASE c = "S" -> "s" [] c = "E" -> "e" [] c = "L" -> "l" [] c = "C" -> "c"
      [] c = "T" -> "t" [] c = "W" -> "w" [] c = "I" -> "i" [] c = "H" -> "h"
      [] c = "Q" -> "q" [] c = "D" -> "d" [] c = "O" -> "o" [] c = "U" -> "u"
      [] c = "A" -> "a" [] c = "F" -> "f" [] c = "R" -> "r" [] c = "M" -> "m"
      [] c = "N" -> "n"
      [] OTHER -> c

\* str.strip() removes these characters at both ends.
IsSpace(c) == c \in {" ", "\n", "\t", "\r"}

\* Does the literal pattern pat match text at position i (1-based)?
MatchAt(pat, text, i, ignorecase) ==
    /\ i >= 1
    /\ i + Len(pat) - 1 <= Len(text)
    /\ \A k \in 1..Len(pat) :
          IF ignorecase THEN Lower(text[i + k - 1]) = Lower(pat[k])
                        ELSE text[i + k - 1] = pat[k]

SetMin(S) == CHOOSE m \in S : \A x \in S : m <= x
SetMax(S) == CHOOSE m \in S : \A x \in S : m >= x

RECURSIVE ReSubFrom(_, _, _, _)
\* re.sub(pat, "", text) from position i on: the scan finds the leftmost match,
\* keeps the text before it, drops the match and goes on behind it, so the
\* matches removed do not overlap.
ReSubFrom(pat, text, i, ignorecase) ==
    LET ms == {k \in i..Len(text) : MatchAt(pat, text, k, ignorecase)}
    IN IF ms = {} THEN SubSeq(text, i, Len(text))
       ELSE SubSeq(text, i, SetMin(ms) - 1)
            \o ReSubFrom(pat, text, SetMin(ms) + Len(pat), ignorecase)

ReSub(pat, text, ignorecase) == ReSubFrom(pat, text, 1, ignorecase)

FENCE_SQL == <<BT, BT, BT, "s", "q", "l">>
FENCE == <<BT, BT, BT>>
KW_SELECT == <<"S", "E", "L", "E", "C", "T">>
KW_WITH == <<"W", "I", "T", "H">>

\* Positions where (SELECT|WITH) matches under re.IGNORECASE.
KeywordAt(text, i) ==
    MatchAt(KW_SELECT, text, i, TRUE) \/ MatchAt(KW_WITH, text, i, TRUE)

KeywordPositions(text) == {i \in 1..Len(text) : KeywordAt(text, i)}

HasKeyword(text) == KeywordPositions(text) # {}

\* str.strip()
Strip(text) ==
    LET keep == {i \in 1..Len(text) : ~IsSpace(text[i])}
    IN IF keep = {} THEN <<>> ELSE SubSeq(text, SetMin(keep), SetMax(keep))

\* Step 1 of clean_sql: the two re.sub calls.
StripFences(text) == ReSub(FENCE, ReSub(FENCE_SQL, text, TRUE), FALSE)

\* re.search(r"(SELECT|WITH).*", text, re.IGNORECASE | re.DOTALL).group(0):
\* with DOTALL the trailing .* runs to the end of the text.
ReSearchKeyword(text) == SubSeq(text, SetMin(KeywordPositions(text)), Len(text))

\* The same search without re.DOTALL: .* stops before the first newline.
ReSearchKeywordNoDotAll(text) ==
    LET from == SetMin(KeywordPositions(text))
        nl == {i \in from..Len(text) : text[i] = "\n"}
    IN SubSeq(text, from, IF nl = {} THEN Len(text) ELSE SetMin(nl) - 1)

\* clean_sql with the search made without re.DOTALL.
clean_sql_NoDotAll(text) ==
    LET t == StripFences(text)
    IN IF HasKeyword(t) THEN Strip(ReSearchKeywordNoDotAll(t)) ELSE Strip(t)

\* clean_sql failing closed: nothing is returned when no keyword is found.
clean_sql_FailClosed(text) ==
    LET t == StripFences(text)
    IN IF HasKeyword(t) THEN Strip(ReSearchKeyword(t)) ELSE <<>>

\* clean_sql with the keyword search made before the fences are removed.
clean_sql_SearchFirst(text) ==
    IF HasKeyword(text) THEN Strip(StripFences(ReSearchKeyword(text)))
    ELSE Strip(StripFences(text))

clean_sql(text) ==
    LET t == StripFences(text)
    IN IF HasKeyword(t) THEN Strip(ReSearchKeyword(t)) ELSE Strip(t)

(***************************************************************************)
(* Texts a model may return, built from chunks                             *)
(***************************************************************************)
Chunks ==
    { FENCE, <<BT>>, <<"S", "q", "l">>,
      KW_SELECT, <<"s", "e", "l">>, <<"e", "c", "t">>, <<"W", "i", "t", "h">>,
      <<" ">>, <<"\n">>, <<"x">> }

RECURSIVE Flatten(_)
Flatten(ss) == IF ss = <<>> THEN <<>> ELSE Head(ss) \o Flatten(Tail(ss))

ChunkSeqs == UNION {[1..n -> Chunks] : n \in 0..MaxChunks}

(***************************************************************************)
(* Snapshot rows and tables                                                *)
(***************************************************************************)
MaxDay == 2
MaxRows == 3

MAX_HOTEL_CAPACITY == 60

\* A rate cell: a number, or a text such as the sold-out marker.
NumRate(n) == [kind |-> "num", num |-> n, text |-> <<>>]
TextRate(t) == [kind |-> "text", num |-> 0, text |-> t]

\* Sampling instants <<hour, minute>> of a day.
Slots == << <<15, 0>>, <<21, 0>>, <<21, 30>> >>

\* Readings of one sample.
Readings ==
    << [rooms |-> 45, arrivals |-> 5, ooo |-> 0,
        king |-> NumRate(189), qq |-> NumRate(150)],
       [rooms |-> 60, arrivals |-> 12, ooo |-> 2,
        king |-> TextRate(<<"S", "o", "l", "d", " ", "O", "u", "t">>),
        qq |-> TextRate(<<"S", "O", "L", "D", " ", "O", "U", "T">>)] >>

NumRows == MaxDay * Len(Slots) * Len(Readings)

\* The k-th row of the row universe, ordered by day, then time of day.
Row(k) ==
    LET perDay == Len(Slots) * Len(Readings)
        slot == Slots[(((k - 1) % perDay) \div Len(Readings)) + 1]
        rd == Readings[((k - 1) % Len(Readings)) + 1]
    IN [day |-> ((k - 1) \div perDay) + 1, hour |-> slot[1], minute |-> slot[2],
        rooms |-> rd.rooms, arrivals |-> rd.arrivals, ooo |-> rd.ooo,
        king |-> rd.king, qq |-> rd.qq]

\* Tables of at most n rows, in timestamp order (a sheet is filled in time order).
TablesUpTo(n) ==
    UNION { { [i \in 1..m |-> Row(f[i])] :
                f \in {g \in [1..m -> 1..NumRows] :
                         \A i \in 1..(m - 1) : g[i] <= g[i + 1]} } :
            m \in 0..n }

StoreOf(rows) == [exists |-> TRUE, rows |-> rows]
NoTable == [exists |-> FALSE, rows |-> <<>>]

(***************************************************************************)
(* Scalars as Python and pandas hold them                                  *)
(***************************************************************************)
\* A float n/d, kept exact.
Num(n, d) == [kind |-> "num", n |-> n, d |-> d]
Zero == Num(0, 1)
\* The value pandas hands back for an SQL NULL aggregate.
SqlNull == [kind |-> "null", n |-> 0, d |-> 1]
\* The mean of an empty Series.
NaN == [kind |-> "nan", n |-> 0, d |-> 1]

\* Equality of two such values as numbers.
SameValue(a, b) ==
    /\ a.kind = b.kind
    /\ a.kind = "num" => a.n * b.d = b.n * a.d

\* round(1): one decimal, ties to even.
Round1(v) ==
    IF v.kind # "num" THEN v
    ELSE LET q == (10 * v.n) \div v.d
             rem == 10 * v.n - q * v.d
         IN Num(IF 2 * rem > v.d \/ (2 * rem = v.d /\ q % 2 = 1) THEN q + 1 ELSE q, 10)

(***************************************************************************)
(* Columns                                                                 *)
(***************************************************************************)
\* Is the column a number in this row? (pd.to_numeric(..., errors='coerce')
\* makes a text rate NaN, lines 278-279.)
HasMetric(r, m) ==
    CASE m = "King Rate Clean" -> r.king.kind = "num"
      [] m = "QQ Rate Clean" -> r.qq.kind = "num"
      [] OTHER -> TRUE

\* The column's value in the row, as MetricNum / MetricDen.
MetricNum(r, m) ==
    CASE m = "Occupancy Rate" -> r.rooms * 100
      [] m = "Rooms Sold" -> r.rooms
      [] m = "Arrivals" -> r.arrivals
      [] m = "OOO Rooms" -> r.ooo
      [] m = "King Rate Clean" -> r.king.num
      [] m = "QQ Rate Clean" -> r.qq.num

\* line 344: 'Occupancy Rate' = 'Rooms Sold' * 100.0 / MAX_HOTEL_CAPACITY
MetricDen(m) == IF m = "Occupancy Rate" THEN MAX_HOTEL_CAPACITY ELSE 1

RECURSIVE SumMetric(_, _)
SumMetric(rows, m) ==
    IF rows = <<>> THEN 0 ELSE MetricNum(Head(rows), m) + SumMetric(Tail(rows), m)

\* Series.mean(): NaN cells are skipped, an empty Series gives NaN.
MeanOf(rows, m) ==
    LET valid == SelectSeq(rows, LAMBDA r : HasMetric(r, m))
    IN IF valid = <<>> THEN NaN
       ELSE Num(SumMetric(valid, m), MetricDen(m) * Len(valid))

DaysOf(rows) == {rows[i].day : i \in 1..Len(rows)}

\* lines 153-156: rows whose date lies in [s, e]
FilterRange(rows, s, e) == SelectSeq(rows, LAMBDA r : r.day >= s /\ r.day <= e)

\* df[df['DateTime'].dt.hour == hour]
FilterHour(rows, h) == SelectSeq(rows, LAMBDA r : r.hour = h)

\* .astype(str).str.lower().str.contains('sold out')
SOLD_OUT == <<"s", "o", "l", "d", " ", "o", "u", "t">>
IsSoldOut(rate) ==
    /\ rate.kind = "text"
    /\ \E i \in 1..Len(rate.text) : MatchAt(SOLD_OUT, rate.text, i, TRUE)

(***************************************************************************)
(* The cached functions, lines 22-96                                       *)
(***************************************************************************)
\* load_all_data: the rows of the table; any failure (no such table) is
\* reported and an empty DataFrame returned.
LoadAllDataBody(st) ==
    [rows |-> IF st.exists THEN st.rows ELSE <<>>, err |-> ~st.exists]

\* WHERE STRFTIME('%H:%M', DateTime) = '21:00' AND DATE(DateTime) BETWEEN s AND e
SqlWhere2100(rows, s, e) ==
    SelectSeq(rows, LAMBDA r : r.hour = 21 /\ r.minute = 0 /\ r.day >= s /\ r.day <= e)

\* get_overall_occupancy_rate: AVG(...) is NULL over no rows, and the result
\* frame of an aggregate always has its one row; an exception gives 0.0.
OccupancyBody(st, cap, s, e) ==
    IF ~st.exists THEN [val |-> Zero, err |-> TRUE]
    ELSE LET m == SqlWhere2100(st.rows, s, e)
         IN [val |-> IF m = <<>> THEN SqlNull
                     ELSE Num(100 * SumMetric(m, "Rooms Sold"), cap * Len(m)),
             err |-> FALSE]

\* get_total_ooo_rooms_at_2100: SUM(...) is NULL over no rows.
OooBody(st, s, e) ==
    IF ~st.exists THEN [val |-> Zero, err |-> TRUE]
    ELSE LET m == SqlWhere2100(st.rows, s, e)
         IN [val |-> IF m = <<>> THEN SqlNull ELSE Num(SumMetric(m, "OOO Rooms"), 1),
             err |-> FALSE]

\* st.cache_data: the entry stored for these arguments, if any.
CacheHit(cache, s, e) == \E c \in cache : c.start = s /\ c.end = e
CacheGet(cache, s, e) == CHOOSE c \in cache : c.start = s /\ c.end = e
CachePut(cache, s, e, res) ==
    cache \cup {[start |-> s, end |-> e, val |-> res.val, err |-> res.err]}

(***************************************************************************)
(* Trend charts, lines 160-202                                             *)
(***************************************************************************)
TimeScales == {"Day", "Week", "Month"}

\* Days are numbered from a Sunday that is the last day but one of a month, so
\* that day 2 is a Monday and a month end, and day 3 starts a month.
\* The label of the resample bin of a day: "D" the day, "W-MON" the Monday that
\* ends the week, "ME" the last day of the month.
BucketOf(d, ts) ==
    CASE ts = "Day" -> d
      [] ts = "Week" -> d + ((2 - d) % 7)
      [] ts = "Month" -> IF d <= 2 THEN 2 ELSE 33

\* plot_metric_chart: the rows of the hour, resampled by mean and rounded;
\* no chart when the hour has no row.
Trend(rows, m, h, ts) ==
    LET base == FilterHour(rows, h)
        days == DaysOf(base)
    IN IF base = <<>> THEN {}
       ELSE { [label |-> b,
               value |-> Round1(MeanOf(SelectSeq(base,
                                  LAMBDA r : BucketOf(r.day, ts) = b), m))] :
              b \in {BucketOf(d, ts) : d \in SetMin(days)..SetMax(days)} }

(***************************************************************************)
(* KPIs on the filtered frame, lines 278-301                               *)
(***************************************************************************)
\* (count / total_days) * 100 if total_days > 0 else 0
Percent(count, total) == IF total > 0 THEN Num(100 * count, total) ELSE Zero

\* The mean of 'Arrivals' with the hour filter left out.
AvgArrivalsAllHours(filtered) ==
    IF filtered = <<>> THEN Zero ELSE MeanOf(filtered, "Arrivals")

\* lines 290-291: the mean of 'Arrivals' over the rows of hour 15, 0 if none
AvgArrivals3pm(filtered) ==
    LET a == FilterHour(filtered, 15)
    IN IF a = <<>> THEN Zero ELSE MeanOf(a, "Arrivals")

Kpis(filtered) ==
    LET nine_pm_data == FilterHour(filtered, 21)
        num_king == Len(SelectSeq(nine_pm_data, LAMBDA r : IsSoldOut(r.king)))
        num_qq == Len(SelectSeq(nine_pm_data, LAMBDA r : IsSoldOut(r.qq)))
        total_days == Cardinality(DaysOf(filtered))
        ooo_days == Cardinality(DaysOf(SelectSeq(nine_pm_data, LAMBDA r : r.ooo > 0)))
    IN [avg_king_rate |-> MeanOf(filtered, "King Rate Clean"),
        avg_qq_rate |-> MeanOf(filtered, "QQ Rate Clean"),
        num_king_sold_out |-> num_king,
        num_qq_sold_out |-> num_qq,
        avg_arrivals_3pm |-> AvgArrivals3pm(filtered),
        total_days_in_db |-> total_days,
        ooo_day_percent |-> Percent(ooo_days, total_days),
        king_sold_out_percent |-> Percent(num_king, total_days),
        qq_sold_out_percent |-> Percent(num_qq, total_days)]

NoKpis ==
    [avg_king_rate |-> NaN, avg_qq_rate |-> NaN, num_king_sold_out |-> 0,
     num_qq_sold_out |-> 0, avg_arrivals_3pm |-> Zero, total_days_in_db |-> 0,
     ooo_day_percent |-> Zero, king_sold_out_percent |-> Zero,
     qq_sold_out_percent |-> Zero]

NoCharts == [occupancy |-> {}, arrivals |-> {}, ooo |-> {}, king |-> {}, qq |-> {}]

(***************************************************************************)
(* One run of the dashboard script                                         *)
(***************************************************************************)
\* date.today(), a day after the data.
Today == MaxDay + 1

Filtered == FilterRange(all_data, start_date, end_date)

\* lines 116-158: the sidebar, load_all_data, the date range and the filter
RenderLoad ==
    /\ pc \in {"idle", "shown", "no_data", "crashed"}
    /\ LET hit == cache_all.set
           res == IF hit THEN cache_all ELSE LoadAllDataBody(store)
           days == DaysOf(res.rows)
           min_date == IF days = {} THEN Today ELSE SetMin(days)
           max_date == IF days = {} THEN Today ELSE SetMax(days)
       IN /\ cache_all' = [set |-> TRUE, rows |-> res.rows, err |-> res.err]
          /\ all_data' = res.rows
          /\ \E s \in min_date..max_date : \E e \in s..max_date :
                /\ start_date' = s
                /\ end_date' = e
                /\ IF FilterRange(res.rows, s, e) = <<>>
                   THEN /\ pc' = "no_data"
                        /\ notices' = (IF res.err THEN {"load_error"} ELSE {})
                                         \cup {"no_data"}
                   ELSE /\ pc' = "loaded"
                        /\ notices' = IF res.err THEN {"load_error"} ELSE {}
    /\ time_scale' \in TimeScales
    /\ occupancy_rate' = Zero /\ total_ooo_rooms' = Zero
    /\ kpis' = NoKpis /\ charts' = NoCharts
    /\ store_at_load' = store
    /\ render_synced' = FALSE
    /\ UNCHANGED <<sanVars, nlVars, store, syncVars, cache_occ, cache_ooo>>

\* line 275: occupancy_rate = get_overall_occupancy_rate(...)
RenderOccupancy ==
    /\ pc = "loaded"
    /\ LET hit == CacheHit(cache_occ, start_date, end_date)
           res == IF hit THEN CacheGet(cache_occ, start_date, end_date)
                  ELSE OccupancyBody(store, MAX_HOTEL_CAPACITY, start_date, end_date)
       IN /\ occupancy_rate' = res.val
          /\ notices' = notices \cup (IF res.err THEN {"occupancy_error"} ELSE {})
          /\ cache_occ' = IF hit THEN cache_occ
                          ELSE CachePut(cache_occ, start_date, end_date, res)
    /\ pc' = "occupancy"
    /\ UNCHANGED <<sanVars, nlVars, store, syncVars, cache_all, cache_ooo,
                   time_scale, all_data, start_date, end_date, total_ooo_rooms,
                   kpis, charts, store_at_load, render_synced>>

\* lines 278-301: the KPIs of the filtered frame and get_total_ooo_rooms_at_2100
RenderKpis ==
    /\ pc = "occupancy"
    /\ kpis' = Kpis(Filtered)
    /\ LET hit == CacheHit(cache_ooo, start_date, end_date)
           res == IF hit THEN CacheGet(cache_ooo, start_date, end_date)
                  ELSE OooBody(store, start_date, end_date)
       IN /\ total_ooo_rooms' = res.val
          /\ notices' = notices \cup (IF res.err THEN {"ooo_error"} ELSE {})
          /\ cache_ooo' = IF hit THEN cache_ooo
                          ELSE CachePut(cache_ooo, start_date, end_date, res)
    /\ pc' = "kpis"
    /\ UNCHANGED <<sanVars, nlVars, store, syncVars, cache_all, cache_occ,
                   time_scale, all_data, start_date, end_date, occupancy_rate,
                   charts, store_at_load, render_synced>>

\* f"{occupancy_rate:.1f}" (line 311) and int(total_ooo_rooms) (line 337) raise
\* on the value of an SQL NULL; the :.1f and :.2f of a float NaN do not.
DisplayRaises(occ, ooo) == occ.kind = "null" \/ ooo.kind \in {"null", "nan"}

\* lines 304-384: the metric cards, then the four trend charts
RenderDisplay ==
    /\ pc = "kpis"
    /\ IF DisplayRaises(occupancy_rate, total_ooo_rooms)
       THEN /\ pc' = "crashed"
            /\ UNCHANGED charts
       ELSE /\ pc' = "shown"
            /\ charts' =
                 [occupancy |-> Trend(Filtered, "Occupancy Rate", 21, time_scale),
                  arrivals |-> Trend(Filtered, "Arrivals", 15, time_scale),
                  ooo |-> Trend(Filtered, "OOO Rooms", 21, time_scale),
                  king |-> Trend(Filtered, "King Rate Clean", 21, time_scale),
                  qq |-> Trend(Filtered, "QQ Rate Clean", 21, time_scale)]
    /\ UNCHANGED <<sanVars, nlVars, store, syncVars, cacheVars, time_scale,
                   all_data, start_date, end_date, occupancy_rate,
                   total_ooo_rooms, kpis, notices, store_at_load, render_synced>>

DashIdle ==
    /\ sync_pc = "idle" /\ sync_df = <<>>
    /\ cache_all = [set |-> FALSE, rows |-> <<>>, err |-> FALSE]
    /\ cache_occ = {} /\ cache_ooo = {}
    /\ pc = "idle" /\ time_scale = "Day" /\ all_data = <<>>
    /\ start_date = Today /\ end_date = Today
    /\ occupancy_rate = Zero /\ total_ooo_rooms = Zero
    /\ kpis = NoKpis /\ charts = NoCharts /\ notices = {}
    /\ store_at_load = NoTable /\ render_synced = FALSE

(***************************************************************************)
(* NL-query handler: lines 499-543                                         *)
(***************************************************************************)
DELETE_STMT ==
    <<"D", "E", "L", "E", "T", "E", " ", "F", "R", "O", "M", " ", "d", "a", "i",
      "l", "y", "_", "h", "o", "u", "r", "l", "y", "_", "m", "e", "t", "r", "i",
      "c", "s">>
CTE_PREFIX ==
    <<"W", "I", "T", "H", " ", "c", " ", "A", "S", " ", "(", "S", "E", "L", "E",
      "C", "T", " ", "1", ")", " ">>

NLChunks ==
    { FENCE, <<" ">>, <<"x">>,
      KW_SELECT, <<"s", "e", "l">>, <<"e", "c", "t">>, CTE_PREFIX, DELETE_STMT }

\* Texts write_query.invoke may return.
RawTexts == {Flatten(cs) : cs \in UNION {[1..n -> NLChunks] : n \in 0..MaxNLChunks}}

Questions == {"q1", "q2"}

\* The store the first question finds (the handler is reached only with data).
NLStores == {StoreOf(<<Row(1)>>)}

\* Result strings db.run may return for a query, given as the rows they print:
\* "" for no rows, else the repr of a list of tuples.
DbResults ==
    { <<>>, << <<5>> >>, << <<1, 5>>, <<2, 8>> >>, << <<5>>, <<8>> >> }

\* A Python value held by data: the parsed list, or the raw string.
PyList(rows) == [type |-> "list", rows |-> rows]
PyStr(rows) == [type |-> "str", rows |-> rows]

\* ast.literal_eval(data_raw) with the bare except of lines 511-514: the empty
\* string is no literal, so data keeps the string.
ParseResult(raw) == IF raw = <<>> THEN PyStr(raw) ELSE PyList(raw)

\* What SQLite makes of the statement handed to db.run.
StmtKind(text) ==
    IF text = DELETE_STMT \/ text = CTE_PREFIX \o DELETE_STMT THEN "write"
    ELSE IF MatchAt(KW_SELECT, text, 1, TRUE) \/ MatchAt(KW_WITH, text, 1, TRUE)
         THEN "query"
         ELSE "invalid"

StageOrder == <<"synthesize", "sanitize", "execute", "compose">>

NoPrompt == [question |-> "", sql |-> <<>>, data |-> PyStr(<<>>)]

NLIdle ==
    /\ nl_pc = "idle" /\ question = "" /\ raw_sql = <<>> /\ sql = <<>>
    /\ exec_in = <<>> /\ data_raw = <<>> /\ data = PyStr(<<>>)
    /\ final_prompt = NoPrompt /\ response = "" /\ nl_trace = <<>>
    /\ shown = {} /\ failed_at = "" /\ nl_store0 = NoTable

SanIdle ==
    /\ san_pc = "off" /\ san_in = <<>> /\ san_out = <<>> /\ san_twice = <<>>

\* line 497-499: a question is submitted; every local of the run is fresh.
NLSubmit ==
    /\ nl_pc \in {"idle", "done", "error"}
    /\ \E q \in Questions : question' = q
    /\ nl_pc' = "synthesize"
    /\ raw_sql' = <<>> /\ sql' = <<>> /\ exec_in' = <<>> /\ data_raw' = <<>>
    /\ data' = PyStr(<<>>) /\ final_prompt' = NoPrompt /\ response' = ""
    /\ nl_trace' = <<>> /\ shown' = {} /\ failed_at' = ""
    /\ nl_store0' = store
    /\ UNCHANGED <<sanVars, dashVars, store>>

\* A handler that tries the failed stage again instead of reporting.
NLRaiseRetry(stage) ==
    /\ nl_pc' = stage
    /\ failed_at' = stage
    /\ shown' = shown

\* line 542-543: except Exception as e: st.error(...)
NLRaise(stage) ==
    /\ nl_pc' = "error"
    /\ failed_at' = stage
    /\ shown' = shown \cup {"error"}

\* line 504: raw_sql = write_query.invoke(...)
NLSynthesize ==
    /\ nl_pc = "synthesize"
    /\ nl_trace' = Append(nl_trace, "synthesize")
    /\ \/ /\ \E t \in RawTexts : raw_sql' = t
          /\ nl_pc' = "sanitize"
          /\ UNCHANGED <<failed_at, shown>>
       \/ /\ NLRaise("synthesize")
          /\ UNCHANGED raw_sql
    /\ UNCHANGED <<sanVars, dashVars, store, question, sql, exec_in, data_raw, data,
                   final_prompt, response, nl_store0>>

\* line 505: sql = clean_sql(raw_sql)
NLSanitize ==
    /\ nl_pc = "sanitize"
    /\ nl_trace' = Append(nl_trace, "sanitize")
    /\ sql' = clean_sql(raw_sql)
    /\ nl_pc' = "execute"
    /\ UNCHANGED <<sanVars, dashVars, store, question, raw_sql, exec_in, data_raw, data,
                   final_prompt, response, shown, failed_at, nl_store0>>

\* line 508: data_raw = db.run(<statement>), then lines 511-514. The database
\* of line 420 is opened without any read-only option.
NLRun(statement) ==
    /\ nl_pc = "execute"
    /\ nl_trace' = Append(nl_trace, "execute")
    /\ exec_in' = statement
    /\ \/ \* the statement is rejected (no SQL, malformed, unknown column...)
          /\ NLRaise("execute")
          /\ UNCHANGED <<store, data_raw, data>>
       \/ /\ StmtKind(statement) = "query"
          /\ \E r \in DbResults : data_raw' = r /\ data' = ParseResult(r)
          /\ nl_pc' = "compose"
          /\ UNCHANGED <<store, failed_at, shown>>
       \/ /\ StmtKind(statement) = "write"
          /\ store.exists
          /\ store' = StoreOf(<<>>)
          /\ data_raw' = <<>> /\ data' = ParseResult(<<>>)
          /\ nl_pc' = "compose"
          /\ UNCHANGED <<failed_at, shown>>
    /\ UNCHANGED <<sanVars, dashVars, question, raw_sql, sql, final_prompt, response,
                   nl_store0>>

NLExecuteRaw == NLRun(raw_sql)

NLExecute == NLRun(sql)

\* lines 517-521: final_prompt, response = llm.invoke(final_prompt), st.success
NLCompose ==
    /\ nl_pc = "compose"
    /\ nl_trace' = Append(nl_trace, "compose")
    /\ final_prompt' = [question |-> question, sql |-> sql, data |-> data]
    /\ \/ /\ response' = "answer"
          /\ shown' = shown \cup {"answer"}
          /\ nl_pc' = "chart"
          /\ UNCHANGED failed_at
       \/ /\ NLRaise("compose")
          /\ UNCHANGED response
    /\ UNCHANGED <<sanVars, dashVars, store, question, raw_sql, sql, exec_in, data_raw,
                   data, nl_store0>>

\* pd.DataFrame(data, columns=["Date", "Value"]) accepts rows of two cells only.
TwoColumns(rows) == \A i \in 1..Len(rows) : Len(rows[i]) = 2

\* The chart block without its own try/except: a result that is no list of
\* two-cell rows raises to the handler of line 542.
NLChartUnguarded ==
    /\ nl_pc = "chart"
    /\ IF data.type = "list" /\ Len(data.rows) > 1 /\ ~TwoColumns(data.rows)
       THEN NLRaise("chart")
       ELSE /\ shown' = shown
                          \cup (IF data.type = "list" /\ Len(data.rows) > 1
                                THEN {"chart"} ELSE {})
                          \cup {"debug"}
            /\ nl_pc' = "done"
            /\ UNCHANGED failed_at
    /\ UNCHANGED <<sanVars, dashVars, store, question, raw_sql, sql, exec_in, data_raw,
                   data, final_prompt, response, nl_trace, nl_store0>>

\* lines 525-540: the trend chart (failures swallowed) and the debug expander
NLChart ==
    /\ nl_pc = "chart"
    /\ shown' = shown
                  \cup (IF data.type = "list" /\ Len(data.rows) > 1
                           /\ TwoColumns(data.rows)
                        THEN {"chart"} ELSE {})
                  \cup {"debug"}
    /\ nl_pc' = "done"
    /\ UNCHANGED <<sanVars, dashVars, store, question, raw_sql, sql, exec_in, data_raw,
                   data, final_prompt, response, nl_trace, failed_at, nl_store0>>

NLInit ==
    /\ SanIdle
    /\ NLIdle
    /\ DashIdle
    /\ store \in NLStores

NLNext ==
    \/ NLSubmit
    \/ NLSynthesize
    \/ NLSanitize
    \/ NLExecute
    \/ NLCompose
    \/ NLChart

SpecNL == NLInit /\ [][NLNext]_vars

(***************************************************************************)
(* The sync job: lines 72-79 of bwf_daily_data_sync_to_sqlite.py           *)
(***************************************************************************)
MaxSheetRows == 2

\* The sheet over time: a sample at 15:00, 21:00 and 21:30 of each day in turn.
SheetRow(k) == Row((k - 1) * Len(Readings) + 1)

\* What pd.read_csv may find: the sheet as filled up to some row.
Sheets == {[i \in 1..n |-> SheetRow(i)] : n \in 0..MaxSheetRows}

\* Has the sync job written to the store during the current run of the script?
MidRender == pc \in {"loaded", "occupancy", "kpis"}

\* lines 15-69: the sheet is read and cleaned; a failure ends the job
SyncFetch ==
    /\ sync_pc = "idle"
    /\ \E sheet \in Sheets : sync_df' = sheet
    /\ sync_pc' = "fetched"
    /\ UNCHANGED <<sanVars, nlVars, store, cacheVars, runVars>>

\* line 75, to_sql(if_exists='replace'): DROP TABLE, committed at once
SyncDrop ==
    /\ sync_pc = "fetched"
    /\ store' = NoTable
    /\ sync_pc' = "dropped"
    /\ render_synced' = (render_synced \/ MidRender)
    /\ UNCHANGED <<sanVars, nlVars, sync_df, cacheVars, pc, time_scale, all_data,
                   start_date, end_date, occupancy_rate, total_ooo_rooms, kpis,
                   charts, notices, store_at_load>>

\* line 75: CREATE TABLE, committed at once
SyncCreate ==
    /\ sync_pc = "dropped"
    /\ store' = StoreOf(<<>>)
    /\ sync_pc' = "created"
    /\ render_synced' = (render_synced \/ MidRender)
    /\ UNCHANGED <<sanVars, nlVars, sync_df, cacheVars, pc, time_scale, all_data,
                   start_date, end_date, occupancy_rate, total_ooo_rooms, kpis,
                   charts, notices, store_at_load>>

\* line 75: the INSERTs and their commit
SyncInsert ==
    /\ sync_pc = "created"
    /\ store' = StoreOf(sync_df)
    /\ sync_pc' = "idle"
    /\ sync_df' = <<>>
    /\ render_synced' = (render_synced \/ MidRender)
    /\ UNCHANGED <<sanVars, nlVars, cacheVars, pc, time_scale, all_data,
                   start_date, end_date, occupancy_rate, total_ooo_rooms, kpis,
                   charts, notices, store_at_load>>

(***************************************************************************)
(* Specifications                                                          *)
(***************************************************************************)
\* The dashboard and the sync job side by side.
Init ==
    /\ SanIdle
    /\ NLIdle
    /\ DashIdle
    /\ store \in {NoTable} \cup {StoreOf(sh) : sh \in Sheets}

Next ==
    \/ SyncFetch
    \/ SyncDrop
    \/ SyncCreate
    \/ SyncInsert
    \/ RenderLoad
    \/ RenderOccupancy
    \/ RenderKpis
    \/ RenderDisplay

Spec == Init /\ [][Next]_vars

\* One run of the script from a cold cache, over every bounded table.
KpiInit ==
    /\ SanIdle
    /\ NLIdle
    /\ DashIdle
    /\ store \in {StoreOf(t) : t \in TablesUpTo(MaxRows)}

FirstRender == pc = "idle" /\ RenderLoad

KpiNext ==
    \/ FirstRender
    \/ RenderOccupancy
    \/ RenderKpis
    \/ RenderDisplay

SpecKpi == KpiInit /\ [][KpiNext]_vars

(***************************************************************************)
(* Sanitizer harness: clean_sql applied to every bounded text              *)
(***************************************************************************)
SanInit ==
    /\ NLIdle
    /\ DashIdle
    /\ store = NoTable
    /\ san_pc = "input"
    /\ san_in \in {Flatten(cs) : cs \in ChunkSeqs}
    /\ san_out = <<>>
    /\ san_twice = <<>>

SanApply ==
    /\ san_pc = "input"
    /\ san_out' = clean_sql(san_in)
    /\ san_pc' = "cleaned"
    /\ UNCHANGED <<san_in, san_twice, store, nlVars, dashVars>>

SanApplyAgain ==
    /\ san_pc = "cleaned"
    /\ san_twice' = clean_sql(san_out)
    /\ san_pc' = "recleaned"
    /\ UNCHANGED <<san_in, san_out, store, nlVars, dashVars>>

SanNext == SanApply \/ SanApplyAgain

SpecSan == SanInit /\ [][SanNext]_vars

(***************************************************************************)
(* Properties                                                              *)
(***************************************************************************)
IsPrefix(a, b) == Len(a) <= Len(b) /\ a = SubSeq(b, 1, Len(a))

RECURSIVE TrimLeft(_)
TrimLeft(t) == IF t # <<>> /\ IsSpace(Head(t)) THEN TrimLeft(Tail(t)) ELSE t

RECURSIVE TrimRight(_)
TrimRight(t) ==
    IF t # <<>> /\ IsSpace(t[Len(t)]) THEN TrimRight(SubSeq(t, 1, Len(t) - 1)) ELSE t

\* out is t without its leading and trailing whitespace, otherwise unchanged.
IsTrimOf(out, t) == out = TrimRight(TrimLeft(t))

HasFence(t) == \E i \in 1..Len(t) : MatchAt(FENCE, t, i, FALSE)

\* The text from the first SELECT or WITH (any casing) of t to its end.
FromFirstKeyword(t) ==
    LET i == CHOOSE k \in 1..Len(t) :
                 KeywordAt(t, k) /\ \A j \in 1..(k - 1) : ~KeywordAt(t, j)
    IN [k \in 1..(Len(t) - i + 1) |-> t[i + k - 1]]

\* C1: the stages of a run are entered in the order synthesize, sanitize,
\* execute, compose, each at most once and never again after a later one, and
\* each stage works on what the stage before it produced.
C1_StagesInOrder ==
    /\ IsPrefix(nl_trace, StageOrder)
    /\ nl_pc \in {"synthesize", "sanitize", "execute", "compose"}
          => nl_trace \o <<nl_pc>> = SubSeq(StageOrder, 1, Len(nl_trace) + 1)
    /\ nl_pc = "execute" => sql = clean_sql(raw_sql)
    /\ Len(nl_trace) >= 3 => exec_in = sql
    /\ Len(nl_trace) >= 4 =>
          /\ data = ParseResult(data_raw)
          /\ final_prompt = [question |-> question, sql |-> exec_in, data |-> data]

C1_Witness ==
    /\ nl_pc = "done"
    /\ nl_trace = StageOrder
    /\ raw_sql # sql
    /\ data.type = "list"

\* C2: once the synthesis call or the SQL execution has failed, the run is in
\* the error state with only the error shown, no later stage has run or can
\* run, the failed stage ran once, and nothing else was executed.
C2_FailureEndsRun ==
    failed_at \in {"synthesize", "execute"} =>
        /\ nl_pc = "error"
        /\ shown = {"error"}
        /\ IsPrefix(nl_trace, StageOrder)
        /\ nl_trace # <<>> /\ nl_trace[Len(nl_trace)] = failed_at
        /\ response = "" /\ final_prompt = NoPrompt
        /\ failed_at = "synthesize" => (sql = <<>> /\ exec_in = <<>>)
        /\ failed_at = "execute" => (exec_in = sql /\ data_raw = <<>>)
        /\ store = nl_store0
        /\ ~ENABLED NLSynthesize /\ ~ENABLED NLSanitize /\ ~ENABLED NLExecute
        /\ ~ENABLED NLCompose /\ ~ENABLED NLChart

C2_Witness ==
    /\ failed_at = "execute"
    /\ nl_pc = "error"
    /\ StmtKind(sql) = "query"

C2_WitnessSynthesis == failed_at = "synthesize" /\ nl_pc = "error"

C8_Original == nl_pc # "idle" => store = nl_store0

\* Positions of all_data that lie in the selected range and in the given hour.
InRangeAtHour(h) ==
    {i \in 1..Len(all_data) :
        /\ all_data[i].hour = h
        /\ all_data[i].day >= start_date /\ all_data[i].day <= end_date}

RECURSIVE SumArrivals(_)
SumArrivals(I) ==
    IF I = {} THEN 0
    ELSE LET i == CHOOSE k \in I : TRUE
         IN all_data[i].arrivals + SumArrivals(I \ {i})

RECURSIVE SumRooms(_, _)
SumRooms(rows, I) ==
    IF I = {} THEN 0
    ELSE LET i == CHOOSE k \in I : TRUE
         IN rows[i].rooms + SumRooms(rows, I \ {i})

\* Within each day the later sample has at least the arrivals of the earlier.
NonDecreasing(rows) ==
    \A i, j \in 1..Len(rows) :
        (i < j /\ rows[i].day = rows[j].day) => rows[i].arrivals <= rows[j].arrivals

DayMax(rows, d) == SetMax({rows[i].arrivals : i \in {k \in 1..Len(rows) : rows[k].day = d}})

RECURSIVE SumDayMax(_, _)
SumDayMax(rows, D) ==
    IF D = {} THEN 0
    ELSE LET d == CHOOSE k \in D : TRUE
         IN DayMax(rows, d) + SumDayMax(rows, D \ {d})

\* C5 as stated: a KPI whose rows are missing is zero, and the run does not raise.
C5_Original ==
    /\ pc # "crashed"
    /\ (pc \in {"occupancy", "kpis", "shown"} /\ InRangeAtHour(21) = {})
          => SameValue(occupancy_rate, Zero)
    /\ pc \in {"kpis", "shown"} =>
          /\ InRangeAtHour(21) = {} =>
                /\ SameValue(total_ooo_rooms, Zero)
                /\ kpis.num_king_sold_out = 0 /\ kpis.num_qq_sold_out = 0
                /\ SameValue(kpis.king_sold_out_percent, Zero)
                /\ SameValue(kpis.qq_sold_out_percent, Zero)
                /\ SameValue(kpis.ooo_day_percent, Zero)
          /\ InRangeAtHour(15) = {} => SameValue(kpis.avg_arrivals_3pm, Zero)
          /\ (\A i \in 1..Len(Filtered) : Filtered[i].king.kind # "num")
                => SameValue(kpis.avg_king_rate, Zero)
          /\ (\A i \in 1..Len(Filtered) : Filtered[i].qq.kind # "num")
                => SameValue(kpis.avg_qq_rate, Zero)

\* C6 as stated, for a run whose first read found 21:00 rows in the selected
\* range: if the sync job writes to the store after that read, the run still
\* does not end in an exception.
C6_Original ==
    (render_synced /\ SqlWhere2100(store_at_load.rows, start_date, end_date) # <<>>)
        => pc # "crashed"

\* C7 as stated: a request undisturbed by the sync job shows what the store
\* holds at that request.
C7_Original ==
    (pc \in {"shown", "no_data", "crashed"} /\ ~render_synced /\ store = store_at_load)
        => /\ all_data = LoadAllDataBody(store).rows
           /\ pc = "shown" =>
                 /\ SameValue(occupancy_rate,
                       OccupancyBody(store, MAX_HOTEL_CAPACITY, start_date, end_date).val)
                 /\ SameValue(total_ooo_rooms, OooBody(store, start_date, end_date).val)

\* No two rows were sampled at the same instant.
DistinctInstants(rows) ==
    \A i, j \in 1..Len(rows) :
        (i # j) => <<rows[i].day, rows[i].hour, rows[i].minute>>
                      # <<rows[j].day, rows[j].hour, rows[j].minute>>

C10_Original ==
    (pc \in {"occupancy", "kpis", "shown"} /\ occupancy_rate.kind = "num") =>
        LET I == InRangeAtHour(21)
        IN /\ I # {}
           /\ occupancy_rate.n * MAX_HOTEL_CAPACITY * Cardinality(I)
                 = occupancy_rate.d * 100 * SumRooms(all_data, I)

\* Days of the range with an hour-21 sample whose rate cell of the room type
\* is the sold-out text.
SoldOutDays(room) ==
    {all_data[i].day : i \in {k \in InRangeAtHour(21) :
        IsSoldOut(IF room = "king" THEN all_data[k].king ELSE all_data[k].qq)}}

\* C11 as stated: with one sample per instant, each sold-out count is the number
\* of distinct days of the range with a sold-out hour-21 sample, so it is at
\* most the number of days in range and each percentage lies in 0..100.
C11_Original ==
    (pc \in {"kpis", "shown"} /\ DistinctInstants(Filtered)) =>
        /\ kpis.num_king_sold_out = Cardinality(SoldOutDays("king"))
        /\ kpis.num_qq_sold_out = Cardinality(SoldOutDays("qq"))
        /\ kpis.num_king_sold_out <= kpis.total_days_in_db
        /\ kpis.num_qq_sold_out <= kpis.total_days_in_db
        /\ \A v \in {kpis.king_sold_out_percent, kpis.qq_sold_out_percent} :
              v.n >= 0 /\ v.n <= 100 * v.d

\* The Monday-to-Sunday calendar week of a day (day 2 is a Monday).
CalendarWeek(d) == (d - 2) \div 7

\* C12 as stated: with week granularity the occupancy chart has one point per
\* Monday-to-Sunday week that holds an hour-21 sample of the range, and the
\* point is the mean over exactly the samples of that week.
C12_Original ==
    (pc = "shown" /\ time_scale = "Week") =>
        LET I == InRangeAtHour(21)
            weeks == {CalendarWeek(all_data[i].day) : i \in I}
            inWeek(w) == {i \in I : CalendarWeek(all_data[i].day) = w}
            mean(w) == Round1(Num(100 * SumRooms(all_data, inWeek(w)),
                                  MAX_HOTEL_CAPACITY * Cardinality(inWeek(w))))
            points == {pt \in charts.occupancy : pt.value.kind = "num"}
        IN /\ Cardinality(points) = Cardinality(weeks)
           /\ \A w \in weeks : \E pt \in points : SameValue(pt.value, mean(w))

\* C13: a chart is shown only for a list result of more than one row, and
\* once the answer is composed and the chart block is passed the run is done
\* without error, with the answer and the debug details shown, whatever the
\* shape of the result.
C13_ChartFailureSwallowed ==
    /\ "chart" \in shown =>
          /\ data.type = "list" /\ Len(data.rows) > 1
          /\ {"answer", "debug"} \subseteq shown
    /\ (response = "answer" /\ nl_pc # "chart") =>
          /\ nl_pc = "done"
          /\ failed_at = ""
          /\ "error" \notin shown
          /\ {"answer", "debug"} \subseteq shown

\* A finished run whose result has several rows that are not (label, value)
\* pairs: no chart, the answer and the debug details shown.
C13_Witness ==
    /\ nl_pc = "done"
    /\ data.type = "list" /\ Len(data.rows) > 1 /\ ~TwoColumns(data.rows)
    /\ shown = {"answer", "debug"}

\* C14: clean_sql applied to its own result returns that result, a call with
\* the same text returns the same result, the result holds no fence delimiter,
\* and a keyword in the result is where the result starts.
C14_Idempotent ==
    /\ san_pc \in {"cleaned", "recleaned"} => ~HasFence(san_out)
    /\ san_pc = "recleaned" =>
          /\ san_twice = san_out
          /\ san_out = clean_sql(san_in)
          /\ HasKeyword(san_out) => KeywordAt(san_out, 1)
          /\ IsTrimOf(san_out, san_out)

\* A text cleaned twice in which removing a fence joined the halves of a
\* keyword behind other text.
C14_Witness ==
    /\ san_pc = "recleaned"
    /\ HasFence(san_in)
    /\ ~HasKeyword(san_in)
    /\ ~KeywordAt(StripFences(san_in), 1)
    /\ KeywordAt(san_out, 1)
    /\ san_twice = san_out

====
